---- MODULE Spec2Model ----
(***************************************************************************)
(* Polled 16550 UART driver, drivers/serial/uart.c.                        *)
(*                                                                         *)
(* One thread of control executes uart_init, uart_putc, uart_puts,         *)
(* uart_getc and uart_gets.  Every volatile register access of the code is *)
(* one step of the model.  The controller is the environment: it answers a *)
(* read of the Line Status register with any status value and a read of    *)
(* the Receive Holding register with any input byte.                       *)
(*                                                                         *)
(* char is modelled as the byte 0..255 it is stored in (plain char is      *)
(* unsigned on the RISC-V target); the driver only compares it for         *)
(* equality and copies it.                                                 *)
(***************************************************************************)
EXTENDS Integers, Sequences, FiniteSets, TLC

(* ------------------------------ bounds ------------------------------- *)
\* bytes other than '\r' one uart_gets call is offered before the line ends
MaxInput == 3
\* not-ready answers of the Line Status register within one top-level call
MaxPoll == 1
\* characters before the terminator of a string handed to uart_puts
MaxStr == 2
\* cells of the buffer the caller hands to uart_gets
BufCap == 2

(* ----------------------- register map, bit masks --------------------- *)
RHR == 0
THR == 0
DLL == 0
IER == 1
DLM == 1
FCR == 2
LCR == 3
MCR == 4
LSR == 5
SPR == 7
LSR_RX_READY == 1
LSR_TX_IDLE == 32
LCR_DLAB == 128

\* character constants of uart_gets
CR == 13
LF == 10
BS == 8
DEL == 127
NUL == 0
SP == 32

Byte == 0..255

RECURSIVE BitAnd(_, _)
BitAnd(a, b) ==
    IF a = 0 \/ b = 0 THEN 0
    ELSE (a % 2) * (b % 2) + 2 * BitAnd(a \div 2, b \div 2)

RECURSIVE BitOr(_, _)
BitOr(a, b) ==
    IF a = 0 THEN b
    ELSE IF b = 0 THEN a
    ELSE (IF a % 2 = 1 \/ b % 2 = 1 THEN 1 ELSE 0) + 2 * BitOr(a \div 2, b \div 2)

\* a value stored through a volatile uint8_t pointer
U8(v) == v % 256

(* --------------------------- environment ----------------------------- *)
\* values the controller may hold in Line Control / Interrupt Enable and the
\* divisor latch when uart_init is first entered (LCR = 0, IER = 0 at power up)
LcrResetVals == {0, 27, 128, 155}
IerResetVals == {0, 14}
DllResetVals == {12}
DlmResetVals == {1}

\* values a read of the Line Status register may return (0x60 at power up)
LsrVals == {0, 1, 32, 33, 64, 97}

\* bytes the serial line may deliver
InBytes == {NUL, BS, LF, CR, 65, DEL}

\* bytes handed to uart_putc
OutBytes == {NUL, 65, 66}

\* memory a char* handed to uart_puts points to: n characters 'A', 'B', 'A',
\* ..., a terminator, and whatever memory follows the terminator
StrMem(n, behind) ==
    [i \in 1..n |-> IF i % 2 = 1 THEN 65 ELSE 66] \o <<NUL>> \o behind

StrMems == {StrMem(n, behind) : n \in 0..MaxStr, behind \in {<<>>, <<66, NUL>>}}

\* the string literal "\b \b"
EraseSeq == <<BS, SP, BS, NUL>>

\* the memory at s before uart_gets writes it: the BufCap cells of the
\* caller's buffer, then the memory that lies behind it; no cell holds a
\* terminator or a byte the line delivers.  A store of uart_gets at an index
\* of BufCap or more is a byte store into the memory behind the buffer.
FreshBuf == [i \in 0..MaxInput |-> IF i < BufCap THEN 85 ELSE 170]

VARIABLES
    regs,      \* the controller's writable registers
    inited,    \* uart_init has returned at least once
    op,        \* the top-level call in progress, or the last one made
    argc,      \* uart_putc's argument of the top-level call
    args,      \* the memory uart_puts's argument of the top-level call points to
    pc,        \* position of the thread of control
    stack,     \* return positions of the calls in progress
    loc,       \* local variables of the functions
    buf,       \* the caller's buffer handed to uart_gets, by index from s
    result,    \* value returned by the last top-level call
    trace,     \* register accesses of the top-level call (not kept for uart_gets)
    last,      \* the most recent register access of the top-level call
    rx,        \* values read at offset 0 during the top-level call
    tx,        \* values written at offset 0 during the top-level call
    polls,     \* not-ready Line Status answers during the top-level call
    after      \* the registers at the returns of the latest uart_init calls
               \* made one after the other, the last two at most

vars == <<regs, inited, op, argc, args, pc, stack, loc, buf, result,
          trace, last, rx, tx, polls, after>>

(* --------------------------- register window -------------------------- *)
Rd(reg, v) == [k |-> "r", reg |-> reg, val |-> v]
Wr(reg, v) == [k |-> "w", reg |-> reg, val |-> v]
NoAccess == [k |-> "none", reg |-> 0, val |-> 0]

Dlab(rg) == BitAnd(rg.lcr, LCR_DLAB) # 0

\* the registers after a store of v at offset reg: with the divisor latch
\* open, offsets 0 and 1 are DLL and DLM instead of THR and IER
RegWrite(rg, reg, v) ==
    CASE reg = THR -> IF Dlab(rg) THEN [rg EXCEPT !.dll = v] ELSE rg
      [] reg = IER -> IF Dlab(rg) THEN [rg EXCEPT !.dlm = v] ELSE [rg EXCEPT !.ier = v]
      [] reg = FCR -> [rg EXCEPT !.fcr = v]
      [] reg = LCR -> [rg EXCEPT !.lcr = v]
      [] reg = MCR -> [rg EXCEPT !.mcr = v]
      [] reg = SPR -> [rg EXCEPT !.spr = v]
      [] OTHER     -> rg

\* the values a load at offset reg may return, taken being the number of bytes
\* the line has delivered in this call
RegReadVals(rg, reg, taken) ==
    CASE reg = RHR -> IF Dlab(rg) THEN {rg.dll}
                      ELSE IF taken < MaxInput THEN InBytes ELSE {CR}
      [] reg = IER -> IF Dlab(rg) THEN {rg.dlm} ELSE {rg.ier}
      [] reg = LCR -> {rg.lcr}
      [] reg = MCR -> {rg.mcr}
      [] reg = LSR -> LsrVals
      [] reg = SPR -> {rg.spr}
      [] OTHER     -> {0}

\* every access is a volatile access: it is made, and in program order
Access(a) ==
    /\ last' = a
    /\ trace' = IF op = "gets" THEN trace ELSE Append(trace, a)
    /\ rx' = IF a.k = "r" /\ a.reg = 0 THEN Append(rx, a.val) ELSE rx
    /\ tx' = IF a.k = "w" /\ a.reg = 0 THEN Append(tx, a.val) ELSE tx

uart_write_reg(reg, v) ==
    /\ regs' = RegWrite(regs, reg, U8(v))
    /\ Access(Wr(reg, U8(v)))

uart_read_reg(reg, v) ==
    /\ v \in RegReadVals(regs, reg, Len(rx))
    /\ regs' = regs
    /\ Access(Rd(reg, v))

(* ------------------------------ calls -------------------------------- *)
LastTwo(q) == IF Len(q) <= 2 THEN q ELSE SubSeq(q, Len(q) - 1, Len(q))

Loc0 == [lcr |-> 0, ier |-> 0, ch |-> 0, s |-> <<NUL>>, i |-> 1,
         rv |-> 0, gch |-> 0, t |-> 0]

Init ==
    /\ regs \in [lcr : LcrResetVals, ier : IerResetVals, dll : DllResetVals,
                 dlm : DlmResetVals, fcr : {0}, mcr : {0}, spr : {0}]
    /\ inited = FALSE
    /\ op = "none"
    /\ argc = 0
    /\ args = <<NUL>>
    /\ pc = "idle"
    /\ stack = <<>>
    /\ loc = Loc0
    /\ buf = FreshBuf
    /\ result = 0
    /\ trace = <<>>
    /\ last = NoAccess
    /\ rx = <<>>
    /\ tx = <<>>
    /\ polls = 0
    /\ after = <<>>

\* the caller enters a driver function
Enter(f, entry, b, str) ==
    /\ pc = "idle"
    /\ op' = f
    /\ argc' = b
    /\ args' = str
    /\ pc' = entry
    /\ stack' = <<>>
    /\ loc' = [Loc0 EXCEPT !.ch = b, !.s = str]
    /\ buf' = FreshBuf
    /\ result' = 0
    /\ trace' = <<>>
    /\ last' = NoAccess
    /\ rx' = <<>>
    /\ tx' = <<>>
    /\ polls' = 0
    /\ after' = IF f = "init" THEN after ELSE <<>>
    /\ UNCHANGED <<regs, inited>>

\* uart_init is the first call made; the transfer functions are called once
\* it has returned, and uart_init may be called again
CallInit == Enter("init", "init_73", 0, <<NUL>>)

CallPutc == inited /\ \E b \in OutBytes : Enter("putc", "putc_116", b, <<NUL>>)

CallPuts == inited /\ \E str \in StrMems : Enter("puts", "puts_122", 0, str)

CallGetc == inited /\ Enter("getc", "getc_129", 0, <<NUL>>)

CallGets == inited /\ Enter("gets", "gets_137", 0, <<NUL>>)

\* a function returns v to its caller
Return(v, l) ==
    /\ loc' = [l EXCEPT !.rv = v]
    /\ IF stack = <<>>
       THEN /\ pc' = "idle"
            /\ result' = v
            /\ stack' = stack
       ELSE /\ pc' = Head(stack)
            /\ result' = result
            /\ stack' = Tail(stack)

Goto(l) == pc' = l /\ UNCHANGED <<stack, result>>

Call(entry, back) ==
    /\ pc' = entry
    /\ stack' = <<back>> \o stack
    /\ result' = result

NoAccessStep == UNCHANGED <<regs, trace, last, rx, tx>>

(* ----------------------------- uart_init ----------------------------- *)
\* uart_write_reg(IER, 0x00)
Init_73 ==
    /\ pc = "init_73"
    /\ uart_write_reg(IER, 0)
    /\ Goto("init_91")
    /\ UNCHANGED <<after, inited, op, argc, args, loc, buf, polls>>

\* uint8_t lcr = uart_read_reg(LCR)
Init_91 ==
    /\ pc = "init_91"
    /\ \E v \in Byte :
          /\ uart_read_reg(LCR, v)
          /\ loc' = [loc EXCEPT !.lcr = v]
    /\ Goto("init_92")
    /\ UNCHANGED <<after, inited, op, argc, args, buf, polls>>

\* variant: the latch is opened by a plain store of 0x80
Init_92_Overwrite ==
    /\ pc = "init_92"
    /\ uart_write_reg(LCR, LCR_DLAB)
    /\ Goto("init_93")
    /\ UNCHANGED <<after, inited, op, argc, args, loc, buf, polls>>

\* uart_write_reg(LCR, lcr | (1 << 7))
Init_92 ==
    /\ pc = "init_92"
    /\ uart_write_reg(LCR, BitOr(loc.lcr, LCR_DLAB))
    /\ Goto("init_93")
    /\ UNCHANGED <<after, inited, op, argc, args, loc, buf, polls>>

\* uart_write_reg(DLL, 0x03)
Init_93 ==
    /\ pc = "init_93"
    /\ uart_write_reg(DLL, 3)
    /\ Goto("init_94")
    /\ UNCHANGED <<after, inited, op, argc, args, loc, buf, polls>>

\* uart_write_reg(DLM, 0x00)
Init_94 ==
    /\ pc = "init_94"
    /\ uart_write_reg(DLM, 0)
    /\ Goto("init_105")
    /\ UNCHANGED <<after, inited, op, argc, args, loc, buf, polls>>

\* variant: lcr is not cleared before the word format is merged in
Init_105_KeepLcr ==
    /\ pc = "init_105"
    /\ uart_write_reg(LCR, BitOr(loc.lcr, 3))
    /\ Goto("init_110")
    /\ UNCHANGED <<after, inited, op, argc, args, loc, buf, polls>>

\* lcr = 0; uart_write_reg(LCR, lcr | (3 << 0))
Init_105 ==
    /\ pc = "init_105"
    /\ loc' = [loc EXCEPT !.lcr = 0]
    /\ uart_write_reg(LCR, BitOr(loc'.lcr, 3))
    /\ Goto("init_110")
    /\ UNCHANGED <<after, inited, op, argc, args, buf, polls>>

\* uint8_t ier = uart_read_reg(IER)
Init_110 ==
    /\ pc = "init_110"
    /\ \E v \in Byte :
          /\ uart_read_reg(IER, v)
          /\ loc' = [loc EXCEPT !.ier = v]
    /\ Goto("init_111")
    /\ UNCHANGED <<after, inited, op, argc, args, buf, polls>>

\* uart_write_reg(IER, ier | (1 << 0)); return
Init_111 ==
    /\ pc = "init_111"
    /\ uart_write_reg(IER, BitOr(loc.ier, 1))
    /\ Return(0, loc)
    /\ inited' = TRUE
    /\ after' = LastTwo(Append(after, regs'))
    /\ UNCHANGED <<op, argc, args, buf, polls>>

(* ----------------------------- uart_putc ----------------------------- *)
\* variant: the transmitter-empty bit (1 << 6) is polled
TxBusy_Bit6(v) == BitAnd(v, 64) = 0

\* (uart_read_reg(LSR) & LSR_TX_IDLE) == 0
TxBusy(v) == BitAnd(v, LSR_TX_IDLE) = 0

\* variant: the wait gives up after MaxPoll busy answers
Putc_116_Timeout ==
    /\ pc = "putc_116"
    /\ \E v \in Byte :
          /\ uart_read_reg(LSR, v)
          /\ IF TxBusy(v)
             THEN IF polls < MaxPoll
                  THEN /\ polls' = polls + 1
                       /\ Goto("putc_116")
                       /\ loc' = loc
                  ELSE /\ polls' = polls
                       /\ Return(0, loc)
             ELSE /\ polls' = polls
                  /\ Goto("putc_117")
                  /\ loc' = loc
    /\ UNCHANGED <<after, inited, op, argc, args, buf>>

\* while ((uart_read_reg(LSR) & LSR_TX_IDLE) == 0);
Putc_116 ==
    /\ pc = "putc_116"
    /\ \E v \in Byte :
          /\ uart_read_reg(LSR, v)
          /\ IF TxBusy(v)
             THEN /\ polls < MaxPoll
                  /\ polls' = polls + 1
                  /\ Goto("putc_116")
             ELSE /\ polls' = polls
                  /\ Goto("putc_117")
    /\ UNCHANGED <<after, inited, op, argc, args, loc, buf>>

\* variant: the byte is stored at offset 1
Putc_117_ToIER ==
    /\ pc = "putc_117"
    /\ uart_write_reg(IER, loc.ch)
    /\ Return(0, loc)
    /\ UNCHANGED <<after, inited, op, argc, args, buf, polls>>

\* uart_write_reg(THR, ch); return
Putc_117 ==
    /\ pc = "putc_117"
    /\ uart_write_reg(THR, loc.ch)
    /\ Return(0, loc)
    /\ UNCHANGED <<after, inited, op, argc, args, buf, polls>>

(* ----------------------------- uart_puts ----------------------------- *)
\* variant: do { uart_putc(*s); } while (*s++);
Puts_122_DoWhile ==
    /\ pc = "puts_122"
    /\ IF loc.i = 1 \/ loc.s[loc.i - 1] # NUL
       THEN /\ loc' = [loc EXCEPT !.ch = loc.s[loc.i], !.i = loc.i + 1]
            /\ Call("putc_116", "puts_122")
       ELSE Return(0, loc)
    /\ NoAccessStep
    /\ UNCHANGED <<after, inited, op, argc, args, buf, polls>>

\* while (*s) { uart_putc(*s++); }
Puts_122 ==
    /\ pc = "puts_122"
    /\ IF loc.s[loc.i] # NUL
       THEN /\ loc' = [loc EXCEPT !.ch = loc.s[loc.i], !.i = loc.i + 1]
            /\ Call("putc_116", "puts_122")
       ELSE Return(0, loc)
    /\ NoAccessStep
    /\ UNCHANGED <<after, inited, op, argc, args, buf, polls>>

(* ----------------------------- uart_getc ----------------------------- *)
\* variant: the transmit bit is polled for reception
RxEmpty_TxBit(v) == BitAnd(v, LSR_TX_IDLE) = 0

\* (uart_read_reg(LSR) & LSR_RX_READY) == 0
RxEmpty(v) == BitAnd(v, LSR_RX_READY) = 0

\* while ((uart_read_reg(LSR) & LSR_RX_READY) == 0);
Getc_129 ==
    /\ pc = "getc_129"
    /\ \E v \in Byte :
          /\ uart_read_reg(LSR, v)
          /\ IF RxEmpty(v)
             THEN /\ polls < MaxPoll
                  /\ polls' = polls + 1
                  /\ Goto("getc_129")
             ELSE /\ polls' = polls
                  /\ Goto("getc_130")
    /\ UNCHANGED <<after, inited, op, argc, args, loc, buf>>

\* return uart_read_reg(RHR)
Getc_130 ==
    /\ pc = "getc_130"
    /\ \E v \in Byte :
          /\ uart_read_reg(RHR, v)
          /\ Return(v, loc)
    /\ UNCHANGED <<after, inited, op, argc, args, buf, polls>>

(* ----------------------------- uart_gets ----------------------------- *)
\* variant: a line feed ends the line too
IsCR_OrLF(ch) == ch = CR \/ ch = LF

\* ch == '\r'
IsCR(ch) == ch = CR

\* variant: DEL is an ordinary byte
IsErase_OnlyBS(ch) == ch = BS

\* ch == '\b' || ch == 0x7f
IsErase(ch) == ch = BS \/ ch = DEL

\* variant: t >= s
PastStart_OrAt(t) == t >= 0

\* t > s
PastStart(t) == t > 0

\* char ch = uart_getc()
Gets_137 ==
    /\ pc = "gets_137"
    /\ Call("getc_129", "gets_138")
    /\ NoAccessStep
    /\ UNCHANGED <<after, inited, op, argc, args, loc, buf, polls>>

\* if (ch == '\r') { uart_putc('\r');
Gets_139 ==
    /\ pc = "gets_138"
    /\ IsCR(loc.rv)
    /\ loc' = [loc EXCEPT !.gch = loc.rv, !.ch = CR]
    /\ Call("putc_116", "gets_140")
    /\ NoAccessStep
    /\ UNCHANGED <<after, inited, op, argc, args, buf, polls>>

\* variant: the line feed is not echoed
Gets_140_NoLF ==
    /\ pc = "gets_140"
    /\ Goto("gets_141")
    /\ NoAccessStep
    /\ UNCHANGED <<after, inited, op, argc, args, loc, buf, polls>>

\* uart_putc('\n');
Gets_140 ==
    /\ pc = "gets_140"
    /\ loc' = [loc EXCEPT !.ch = LF]
    /\ Call("putc_116", "gets_141")
    /\ NoAccessStep
    /\ UNCHANGED <<after, inited, op, argc, args, buf, polls>>

\* variant: the terminator is not stored
Gets_141_NoTerm ==
    /\ pc = "gets_141"
    /\ Return(loc.t, loc)
    /\ NoAccessStep
    /\ UNCHANGED <<after, inited, op, argc, args, buf, polls>>

\* *t = '\0'; break; return t - s
Gets_141 ==
    /\ pc = "gets_141"
    /\ buf' = [buf EXCEPT ![loc.t] = NUL]
    /\ Return(loc.t, loc)
    /\ NoAccessStep
    /\ UNCHANGED <<after, inited, op, argc, args, polls>>

\* else if (ch == '\b' || ch == 0x7f) { if (t > s) { uart_puts("\b \b");
Gets_145 ==
    /\ pc = "gets_138"
    /\ ~IsCR(loc.rv)
    /\ IsErase(loc.rv)
    /\ PastStart(loc.t)
    /\ loc' = [loc EXCEPT !.gch = loc.rv, !.s = EraseSeq, !.i = 1]
    /\ Call("puts_122", "gets_146")
    /\ NoAccessStep
    /\ UNCHANGED <<after, inited, op, argc, args, buf, polls>>

\* variant: the erased cell is cleared, *--t = '\0'
Gets_146_Clear ==
    /\ pc = "gets_146"
    /\ loc' = [loc EXCEPT !.t = loc.t - 1]
    /\ buf' = [buf EXCEPT ![loc.t - 1] = NUL]
    /\ Goto("gets_137")
    /\ NoAccessStep
    /\ UNCHANGED <<after, inited, op, argc, args, polls>>

\* t--;
Gets_146 ==
    /\ pc = "gets_146"
    /\ loc' = [loc EXCEPT !.t = loc.t - 1]
    /\ Goto("gets_137")
    /\ NoAccessStep
    /\ UNCHANGED <<after, inited, op, argc, args, buf, polls>>

\* else if (ch == '\b' || ch == 0x7f) { if (t > s) is false: next iteration
Gets_144_Skip ==
    /\ pc = "gets_138"
    /\ ~IsCR(loc.rv)
    /\ IsErase(loc.rv)
    /\ ~PastStart(loc.t)
    /\ loc' = [loc EXCEPT !.gch = loc.rv]
    /\ Goto("gets_137")
    /\ NoAccessStep
    /\ UNCHANGED <<after, inited, op, argc, args, buf, polls>>

\* variant: the echo is stored without waiting for the transmitter
Gets_149_NoWait ==
    /\ pc = "gets_138"
    /\ ~IsCR(loc.rv)
    /\ ~IsErase(loc.rv)
    /\ loc' = [loc EXCEPT !.gch = loc.rv, !.ch = loc.rv]
    /\ Call("putc_117", "gets_150")
    /\ NoAccessStep
    /\ UNCHANGED <<after, inited, op, argc, args, buf, polls>>

\* else { uart_putc(ch);
Gets_149 ==
    /\ pc = "gets_138"
    /\ ~IsCR(loc.rv)
    /\ ~IsErase(loc.rv)
    /\ loc' = [loc EXCEPT !.gch = loc.rv, !.ch = loc.rv]
    /\ Call("putc_116", "gets_150")
    /\ NoAccessStep
    /\ UNCHANGED <<after, inited, op, argc, args, buf, polls>>

\* variant: a byte that would not leave room for the terminator is dropped
Gets_150_Bounded ==
    /\ pc = "gets_150"
    /\ IF loc.t < BufCap - 1
       THEN /\ buf' = [buf EXCEPT ![loc.t] = loc.gch]
            /\ loc' = [loc EXCEPT !.t = loc.t + 1]
       ELSE UNCHANGED <<buf, loc>>
    /\ Goto("gets_137")
    /\ NoAccessStep
    /\ UNCHANGED <<after, inited, op, argc, args, polls>>

\* *t++ = ch;
Gets_150 ==
    /\ pc = "gets_150"
    /\ buf' = [buf EXCEPT ![loc.t] = loc.gch]
    /\ loc' = [loc EXCEPT !.t = loc.t + 1]
    /\ Goto("gets_137")
    /\ NoAccessStep
    /\ UNCHANGED <<after, inited, op, argc, args, polls>>

(* --------------------------- specification --------------------------- *)
Next ==
    \/ CallInit \/ CallPutc \/ CallPuts \/ CallGetc \/ CallGets
    \/ Init_73 \/ Init_91 \/ Init_92 \/ Init_93 \/ Init_94
    \/ Init_105 \/ Init_110 \/ Init_111
    \/ Putc_116 \/ Putc_117
    \/ Puts_122
    \/ Getc_129 \/ Getc_130
    \/ Gets_137 \/ Gets_139 \/ Gets_140 \/ Gets_141
    \/ Gets_145 \/ Gets_146 \/ Gets_144_Skip \/ Gets_149 \/ Gets_150

Spec == Init /\ [][Next]_vars

(* ----------------------------- fairness ------------------------------ *)
\* the steps of the driver, as opposed to the caller's entries
Driver ==
    \/ Init_73 \/ Init_91 \/ Init_92 \/ Init_93 \/ Init_94
    \/ Init_105 \/ Init_110 \/ Init_111
    \/ Putc_116 \/ Putc_117
    \/ Puts_122
    \/ Getc_129 \/ Getc_130
    \/ Gets_137 \/ Gets_139 \/ Gets_140 \/ Gets_141
    \/ Gets_145 \/ Gets_146 \/ Gets_144_Skip \/ Gets_149 \/ Gets_150

\* The one thread of control keeps executing the call in progress.  That the
\* status bits are set in the end and that the line delivers a carriage
\* return in the end is what the controller of this model does: it gives at
\* most MaxPoll not-ready answers and at most MaxInput bytes other than a
\* carriage return within one call.
FairSpec == Spec /\ WF_vars(Driver)

(* ===================== properties of the driver ===================== *)
Front(q) == SubSeq(q, 1, Len(q) - 1)
Final(q) == q[Len(q)]
Bit(v, n) == (v \div (2 ^ n)) % 2 = 1
WithBit(v, n) == IF Bit(v, n) THEN v ELSE v + 2 ^ n

Returned(f) == op = f /\ pc = "idle"

\* line editing by the book: a byte of Erase removes the last character if
\* there is one, any other byte is appended
RECURSIVE RefEdit(_, _)
RefEdit(in, Erase) ==
    IF in = <<>> THEN <<>>
    ELSE LET pre == RefEdit(Front(in), Erase)
         IN  IF Final(in) \in Erase
             THEN (IF pre = <<>> THEN <<>> ELSE Front(pre))
             ELSE Append(pre, Final(in))

\* the echo by the book: CR LF for a carriage return, backspace space
\* backspace for an erase with something to remove, nothing for an erase at
\* the start, the byte itself otherwise
RECURSIVE RefEcho(_, _)
RefEcho(in, Erase) ==
    IF in = <<>> THEN <<>>
    ELSE LET pre == Front(in)
             c   == Final(in)
         IN  RefEcho(pre, Erase) \o
             (IF c = 13 THEN <<13, 10>>
              ELSE IF c \in Erase
                   THEN (IF RefEdit(pre, Erase) # <<>> THEN <<8, 32, 8>> ELSE <<>>)
                   ELSE <<c>>)

\* a line of input: bytes other than carriage return, then one carriage return
IsLine(in) ==
    /\ Len(in) > 0
    /\ Final(in) = 13
    /\ \A i \in 1..(Len(in) - 1) : in[i] # 13

\* the buffer holds exactly the string q and its terminator
Holds(q) ==
    /\ Len(q) \in DOMAIN buf
    /\ \A i \in 1..Len(q) : buf[i - 1] = q[i]
    /\ buf[Len(q)] = 0

\* C1: when uart_gets has returned after an input of bytes other than carriage
\* return followed by one carriage return, the buffer holds exactly the string
\* the reference edit function gives for those bytes (0x08 or 0x7F removes the
\* last character if there is one, any other byte is appended), a null
\* terminator directly behind it, and the return value is that string's length.
C1_GetsStoresEditedLine ==
    (Returned("gets") /\ IsLine(rx)) =>
        LET line == RefEdit(Front(rx), {8, 127})
        IN  /\ Holds(line)
            /\ result = Len(line)

\* uart_gets has returned after A, LF, backspace, CR: "A" is stored
C1_Witness ==
    /\ Returned("gets")
    /\ rx = <<65, 10, 8, 13>>
    /\ result = 1
    /\ buf[0] = 65
    /\ buf[1] = 0

\* C2: the bytes uart_gets has written to the transmit register are, in input
\* order, the byte itself for an ordinary byte, 0x08 0x20 0x08 for a backspace
\* or DEL received with the cursor past the start, nothing for one received at
\* the start, and 0x0D 0x0A for the closing carriage return.
C2_GetsEcho ==
    (op = "gets" /\ pc \in {"gets_137", "idle"}) => tx = RefEcho(rx, {8, 127})

\* uart_gets has returned after backspace, A, DEL, CR
C2_Witness ==
    /\ Returned("gets")
    /\ rx = <<8, 65, 127, 13>>
    /\ tx = <<65, 8, 32, 8, 13, 10>>

\* the register accesses of uart_init when the reads return v and e
InitAccesses(v, e) ==
    << Wr(1, 0), Rd(3, v), Wr(3, WithBit(v, 7)), Wr(0, 3), Wr(1, 0),
       Wr(3, 3), Rd(1, e), Wr(1, WithBit(e, 0)) >>

\* C3: uart_init performs exactly the accesses write IER = 0, read LCR giving
\* v, write LCR = v | 0x80, write DLL = 3, write DLM = 0, write LCR = 3, read
\* IER giving e, write IER = e | 1, in this order and no other access.
C3_InitSequence ==
    op = "init" =>
        /\ Len(trace) <= 8
        /\ LET v == IF Len(trace) >= 2 THEN trace[2].val ELSE 0
               e == IF Len(trace) >= 7 THEN trace[7].val ELSE 0
           IN  trace = SubSeq(InitAccesses(v, e), 1, Len(trace))
        /\ (pc = "idle" <=> Len(trace) = 8)

\* uart_init has returned having read LCR = 0x9B and IER = 0x0E
C3_Witness ==
    /\ Returned("init")
    /\ Len(trace) = 8
    /\ trace[2] = Rd(3, 155)
    /\ trace[3] = Wr(3, 155)
    /\ trace[7] = Rd(1, 14)
    /\ trace[8] = Wr(1, 15)

\* C4: once uart_init has returned, the Divisor Latch Access Bit (Line Control
\* bit 7) is 0 in every state outside uart_init's steps between the store that
\* opens the latch and the store that sets the word format, whatever calls of
\* uart_putc, uart_puts, uart_getc, uart_gets and uart_init follow.
C4_LatchClosedAfterInit ==
    inited =>
        \/ ~Bit(regs.lcr, 7)
        \/ (op = "init" /\ pc \in {"init_93", "init_94", "init_105"})

\* a transfer has run after a uart_init that found the latch open, the latch
\* is closed and the divisor was programmed
C4_Witness ==
    /\ inited
    /\ Returned("gets")
    /\ regs.ier = 15
    /\ regs.dll = 3
    /\ ~Bit(regs.lcr, 7)

\* tr is the access sequence of one uart_putc(b): Line Status reads with bit 5
\* clear, one Line Status read with bit 5 set, then one store of b at offset 0
IsPutcTrace(tr, b) ==
    /\ Len(tr) >= 2
    /\ tr[Len(tr)] = Wr(0, b)
    /\ \A i \in 1..(Len(tr) - 1) :
          /\ tr[i].k = "r"
          /\ tr[i].reg = 5
          /\ Bit(tr[i].val, 5) <=> i = Len(tr) - 1

\* tr is the access sequence of a uart_putc that is still polling or has just
\* seen bit 5 set
IsPutcPolling(tr) ==
    \A i \in 1..Len(tr) :
        /\ tr[i].k = "r"
        /\ tr[i].reg = 5
        /\ Bit(tr[i].val, 5) => i = Len(tr)

\* C5: uart_putc(b) stores nothing at offset 0 while Line Status bit 5 reads
\* 0; its store at offset 0 directly follows a Line Status read with bit 5
\* set, with no access in between; one call stores b exactly once.
C5_PutcWaitsForTxIdle ==
    /\ pc = "putc_117" =>
          /\ last.k = "r"
          /\ last.reg = 5
          /\ Bit(last.val, 5)
    /\ op = "putc" =>
          IF pc = "idle" THEN IsPutcTrace(trace, argc) ELSE IsPutcPolling(trace)

\* uart_putc('A') has returned after a poll that read 0x40 (bit 5 clear) and a
\* poll that read 0x20
C5_Witness ==
    /\ Returned("putc")
    /\ trace = <<Rd(5, 64), Rd(5, 32), Wr(0, 65)>>

\* C6: uart_getc loads nothing from offset 0 while Line Status bit 0 reads 0;
\* after the first Line Status read with bit 0 set it loads offset 0 exactly
\* once and returns exactly the value loaded.
C6_GetcWaitsForRxReady ==
    /\ pc = "getc_130" =>
          /\ last.k = "r"
          /\ last.reg = 5
          /\ Bit(last.val, 0)
    /\ op = "getc" =>
          /\ \A i \in 1..Len(trace) :
                /\ trace[i].k = "r"
                /\ trace[i].reg = 0 =>
                      /\ i = Len(trace)
                      /\ i >= 2
                      /\ trace[i - 1].reg = 5
                /\ trace[i].reg # 0 =>
                      /\ trace[i].reg = 5
                      /\ Bit(trace[i].val, 0) => i + 1 >= Len(trace)
          /\ pc = "idle" <=> (Len(trace) >= 2 /\ Final(trace).reg = 0)
          /\ pc = "idle" => result = Final(trace).val
          /\ pc = "getc_130" <=> (Len(trace) >= 1 /\ Final(trace).reg = 5
                                    /\ Bit(Final(trace).val, 0))

\* uart_getc has returned DEL after a poll that read 0x20 (bit 0 clear) and a
\* poll that read 0x61
C6_Witness ==
    /\ Returned("getc")
    /\ trace = <<Rd(5, 32), Rd(5, 97), Rd(0, 127)>>
    /\ result = 127

\* C7: in uart_gets a backspace (0x08) or DEL (0x7F) received with the cursor
\* at the buffer start changes nothing: the step that handles it stores
\* nothing at offset 0, writes no buffer cell, leaves the cursor where it is
\* and goes on to fetch the next byte; and the cursor is never below the
\* buffer start.
C7_EraseAtStartIgnored ==
    /\ [][(op = "gets" /\ pc = "gets_138" /\ loc.rv \in {8, 127} /\ loc.t = 0)
              => (tx' = tx /\ buf' = buf /\ loc'.t = 0 /\ pc' = "gets_137")]_vars
    /\ [](op = "gets" => loc.t >= 0)

\* uart_gets is about to fetch its fourth byte after A, backspace, DEL: the
\* DEL came with the cursor back at the start and only the first erase was
\* echoed
C7_Witness ==
    /\ op = "gets"
    /\ pc = "gets_137"
    /\ rx = <<65, 8, 127>>
    /\ tx = <<65, 8, 32, 8>>
    /\ loc.t = 0
    /\ buf[0] = 65

\* in with every byte of From replaced by to
Subst(in, From, to) == [i \in 1..Len(in) |-> IF in[i] \in From THEN to ELSE in[i]]

\* the cells below the cursor hold q and the cursor is behind them
HoldsBelow(q, t) ==
    /\ t = Len(q)
    /\ \A i \in 1..Len(q) : buf[i - 1] = q[i]

\* C8: DEL and backspace are interchangeable in uart_gets: the stored
\* characters, the cursor or return value and the echo are those of the input
\* with every DEL replaced by backspace, and equally those of the input with
\* every backspace replaced by DEL, so exchanging any 0x08 for 0x7F or the
\* reverse in the input changes none of them.
C8_DelIsBackspace ==
    (op = "gets" /\ pc \in {"gets_137", "idle"}) =>
        \A e \in {8, 127} :
            LET in   == Subst(rx, {8, 127}, e)
                body == IF pc = "idle" THEN Front(in) ELSE in
                line == RefEdit(body, {e})
            IN  /\ tx = RefEcho(in, {e})
                /\ HoldsBelow(line, loc.t)
                /\ pc = "idle" => (result = Len(line) /\ buf[Len(line)] = 0)

\* uart_gets has returned after A, DEL, A, CR with the same content and echo
\* as for A, backspace, A, CR
C8_Witness ==
    /\ Returned("gets")
    /\ rx = <<65, 127, 65, 13>>
    /\ tx = RefEcho(<<65, 8, 65, 13>>, {8})
    /\ result = 1
    /\ buf[0] = 65

\* the characters of the string at the start of mem, without the terminator
RECURSIVE CStr(_)
CStr(mem) ==
    IF mem = <<>> \/ Head(mem) = 0 THEN <<>>
    ELSE <<Head(mem)>> \o CStr(Tail(mem))

\* tr is the access sequence of uart_putc on each character of str in turn
RECURSIVE IsPutcTraces(_, _)
IsPutcTraces(tr, str) ==
    IF str = <<>> THEN tr = <<>>
    ELSE \E n \in 1..Len(tr) :
            /\ IsPutcTrace(SubSeq(tr, 1, n), Head(str))
            /\ IsPutcTraces(SubSeq(tr, n + 1, Len(tr)), Tail(str))

\* C9: the register accesses of uart_puts(s) are those of uart_putc on each
\* character of s in order, from the first up to but not including the null
\* terminator; the terminator is never transmitted and an empty string causes
\* no register access.
C9_PutsIsPutcPerChar ==
    /\ Returned("putc") => IsPutcTraces(trace, <<argc>>)
    /\ Returned("puts") => IsPutcTraces(trace, CStr(args))
    /\ op = "puts" =>
          /\ \A i \in 1..Len(trace) :
                trace[i].k = "w" => (trace[i].reg = 0 /\ trace[i].val # 0)
          /\ CStr(args) = <<>> => trace = <<>>

\* uart_puts("AB") has returned after one busy poll before the B
C9_Witness ==
    /\ Returned("puts")
    /\ args = <<65, 66, 0, 66, 0>>
    /\ trace = <<Rd(5, 97), Wr(0, 65), Rd(5, 1), Rd(5, 33), Wr(0, 66)>>

\* C10: carriage return is the only exit of uart_gets: it has returned only
\* after a carriage return was received and CR, LF were echoed last; no other
\* byte (0x0A and 0x00 included) ends the loop; no byte is fetched after the
\* first carriage return; and when the status bits are set again and again
\* and the line delivers a carriage return, uart_gets returns.
C10_CrIsTheOnlyExit ==
    /\ [](op = "gets" =>
            /\ \A i \in 1..Len(rx) : rx[i] = 13 => i = Len(rx)
            /\ pc = "idle" =>
                  /\ IsLine(rx)
                  /\ Len(tx) >= 2
                  /\ SubSeq(tx, Len(tx) - 1, Len(tx)) = <<13, 10>>
            /\ (Len(rx) > 0 /\ Final(rx) = 13) =>
                  pc \in {"gets_138", "gets_140", "gets_141", "putc_116",
                          "putc_117", "idle"})
    /\ (op = "gets" /\ pc # "idle") ~> Returned("gets")

\* uart_gets has returned after line feed, null, A, CR, all three stored
C10_Witness ==
    /\ Returned("gets")
    /\ rx = <<10, 0, 65, 13>>
    /\ result = 3
    /\ buf[0] = 10
    /\ buf[1] = 0

\* C11: whatever Line Control held when uart_init was entered, it holds
\* exactly 0x03 when uart_init returns: the store of line 105 keeps none of the
\* bits read at line 91.
C11_LcrIsThreeAfterInit ==
    Returned("init") => regs.lcr = 3

\* uart_init has returned after reading Line Control = 0x1B
C11_Witness ==
    /\ Returned("init")
    /\ trace[2] = Rd(3, 27)
    /\ regs.lcr = 3

\* C12 as claimed: for every register state on entry, Interrupt Enable holds
\* 0x01 when uart_init returns (bit 0 set, every other bit 0 as stored at
\* line 73).
C12_IerIsOneAfterInit ==
    Returned("init") => regs.ier = 1

\* C13 as claimed: for every register state on entry (Line Control bit 7 set
\* included), Interrupt Enable holds 0 from the completion of the store of line
\* 73 until the store of line 111, in particular while the divisor latch is
\* open.
C13_InterruptsMaskedDuringInit ==
    (op = "init" /\ pc \in {"init_91", "init_92", "init_93", "init_94",
                            "init_105", "init_110", "init_111"})
        => regs.ier = 0

\* C14: uart_gets enforces no maximum line length: ordinary bytes received
\* before the carriage return are all stored, one cell each, also when there
\* are BufCap of them or more, so the cursor reaches and passes index BufCap
\* and cells outside the caller's buffer are written.
C14_NoLineLengthLimit ==
    (op = "gets" /\ pc \in {"gets_137", "idle"}) =>
        LET body == IF pc = "idle" THEN Front(rx) ELSE rx
        IN  (\A i \in 1..Len(body) : body[i] \notin {8, 13, 127}) =>
                /\ loc.t = Len(body)
                /\ \A i \in 1..Len(body) : buf[i - 1] = body[i]
                /\ pc = "idle" => (buf[loc.t] = 0 /\ result = Len(body))

\* uart_gets has returned after A, LF, A, CR: the second A and the terminator
\* lie outside the caller's buffer
C14_Witness ==
    /\ Returned("gets")
    /\ rx = <<65, 10, 65, 13>>
    /\ result > BufCap
    /\ buf[BufCap] = 65
    /\ buf[BufCap + 1] = 0

\* the Line Status bit a top-level call f polls, and where it polls it
PolledBit(f) == IF f = "putc" THEN 5 ELSE 0
PollAt(f) == IF f = "putc" THEN "putc_116" ELSE "getc_129"

\* the log tr holds a Line Status read with bit n set
SawReady(tr, n) ==
    \E i \in 1..Len(tr) : tr[i].k = "r" /\ tr[i].reg = 5 /\ Bit(tr[i].val, n)

\* C15: uart_putc and uart_getc have no timeout and no error outcome: as long
\* as no Line Status read has shown the polled bit (bit 5 for uart_putc, bit 0
\* for uart_getc) set, the call is still in its polling loop and has made
\* nothing but Line Status reads, so it has returned only after a read with
\* the bit set; and once a read has shown the bit set, the call returns.
C15_NoTimeout ==
    /\ [](op \in {"putc", "getc"} =>
            /\ ~SawReady(trace, PolledBit(op)) =>
                  /\ pc = PollAt(op)
                  /\ \A i \in 1..Len(trace) : trace[i].k = "r" /\ trace[i].reg = 5
            /\ pc = "idle" => SawReady(trace, PolledBit(op)))
    /\ (op = "putc" /\ pc = "putc_117") ~> Returned("putc")
    /\ (op = "getc" /\ pc = "getc_130") ~> Returned("getc")

\* uart_getc is still polling after MaxPoll answers with bit 0 clear
C15_Witness ==
    /\ op = "getc"
    /\ pc = "getc_129"
    /\ Len(trace) = MaxPoll
    /\ trace[1] = Rd(5, 32)

\* C16 as claimed: for every register state on entry, a uart_init run directly
\* after a uart_init leaves Line Control, Interrupt Enable and the divisor
\* latch as the first run left them.
C16_InitTwiceSameAsOnce ==
    (Returned("init") /\ Len(after) = 2) =>
        /\ after[2].lcr = after[1].lcr
        /\ after[2].ier = after[1].ier
        /\ after[2].dll = after[1].dll
        /\ after[2].dlm = after[1].dlm

Transfers == {"putc", "puts", "getc", "gets"}

\* C17: uart_putc, uart_puts, uart_getc and uart_gets store at no offset but
\* 0 and load from no offset but 0 and 5; no step of them changes Line
\* Control, Interrupt Enable, the divisor latch or any other register; and
\* whether a polling loop ends depends on bit 5 (uart_putc) or bit 0
\* (uart_getc) of the Line Status value read and on no other bit of it.
C17_TransfersTouchOnlyDataAndStatus ==
    /\ []((op \in Transfers /\ last.k # "none") =>
            /\ last.k = "w" => last.reg = 0
            /\ last.k = "r" => last.reg \in {0, 5})
    /\ [][op' \in Transfers => regs' = regs]_vars
    /\ [][pc = "putc_116" =>
            /\ last' \in {Rd(5, v) : v \in Byte}
            /\ (pc' = "putc_117") <=> Bit(last'.val, 5)
            /\ (pc' = "putc_116") <=> ~Bit(last'.val, 5)]_vars
    /\ [][pc = "getc_129" =>
            /\ last' \in {Rd(5, v) : v \in Byte}
            /\ (pc' = "getc_130") <=> Bit(last'.val, 0)
            /\ (pc' = "getc_129") <=> ~Bit(last'.val, 0)]_vars

\* uart_puts("A") has returned after Line Status answers 0x40 and 0x61, which
\* differ from 0x00 and 0x21 in bit 6 only, and the registers are as uart_init
\* left them
C17_Witness ==
    /\ Returned("puts")
    /\ trace = <<Rd(5, 64), Rd(5, 97), Wr(0, 65)>>
    /\ regs = [lcr |-> 3, ier |-> 15, dll |-> 3, dlm |-> 0,
               fcr |-> 0, mcr |-> 0, spr |-> 0]

IsPrefix(p, q) == Len(p) <= Len(q) /\ SubSeq(q, 1, Len(p)) = p

\* C18: in uart_gets the accesses follow program order byte by byte: the load
\* of the next input byte is made only when every echo byte of the bytes
\* received so far has been stored at offset 0; each echo store directly
\* follows a Line Status read with bit 5 set; and while an echo is waiting
\* for bit 5 its byte is still owed, so no further input byte is loaded as
\* long as the transmitter does not become ready.
C18_GetsProgramOrder ==
    /\ [][(op = "gets" /\ pc # "idle" /\ rx' # rx)
              => tx = RefEcho(rx, {8, 127})]_vars
    /\ [][(op = "gets" /\ pc # "idle" /\ tx' # tx)
              => /\ last.k = "r"
                 /\ last.reg = 5
                 /\ Bit(last.val, 5)
                 /\ tx' = Append(tx, loc.ch)]_vars
    /\ [](op = "gets" =>
            /\ IsPrefix(tx, RefEcho(rx, {8, 127}))
            /\ rx # <<>> => IsPrefix(RefEcho(Front(rx), {8, 127}), tx)
            /\ pc \in {"putc_116", "putc_117"} => tx # RefEcho(rx, {8, 127}))

\* uart_gets is about to load its third byte: A and the three bytes that
\* erase it have all been echoed
C18_Witness ==
    /\ op = "gets"
    /\ pc = "getc_130"
    /\ rx = <<65, 8>>
    /\ tx = <<65, 8, 32, 8>>

\* C19: uart_gets writes the buffer only at the cell the cursor is at (one
\* cell for an ordinary byte, the terminator's cell at the exit); an erase
\* moves the cursor back by one and modifies no cell; so whenever the next
\* byte is fetched the cells below the cursor hold the accepted bytes not yet
\* erased, in arrival order, and the byte erased last is still in the cell at
\* the cursor.
C19_WritesOnlyAtCursor ==
    /\ [][(op = "gets" /\ pc # "idle" /\ buf' # buf)
              => \A i \in DOMAIN buf : i # loc.t => buf'[i] = buf[i]]_vars
    /\ [][(op = "gets" /\ pc # "idle" /\ loc'.t # loc.t)
              => \/ loc'.t = loc.t - 1 /\ buf' = buf
                 \/ loc'.t = loc.t + 1 /\ buf' = [buf EXCEPT ![loc.t] = loc.gch]]_vars
    /\ []((op = "gets" /\ pc = "gets_137") =>
            /\ HoldsBelow(RefEdit(rx, {8, 127}), loc.t)
            /\ (rx # <<>> /\ Final(rx) \in {8, 127}
                    /\ RefEdit(Front(rx), {8, 127}) # <<>>)
                  => buf[loc.t] = Final(RefEdit(Front(rx), {8, 127})))

\* uart_gets is about to fetch its fourth byte after A, LF, DEL: the cursor is
\* back at index 1 and the erased LF is still in that cell
C19_Witness ==
    /\ op = "gets"
    /\ pc = "gets_137"
    /\ rx = <<65, 10, 127>>
    /\ loc.t = 1
    /\ buf[0] = 65
    /\ buf[1] = 10

====
